---- MODULE Spec2Model ----
(***************************************************************************)
(* HeapArray: an array partitioned into min-max heaps of sizes 1, 3, 5 ... *)
(* Model of src/heaparray.h (the container) over src/mmheap.h (the min-max *)
(* heap primitives; heaparray.h calls them as heap_insert_circular,        *)
(* heap_remove_at_index, heap_remove_min, heap_replace_at_index, heap_max  *)
(* and make_heap, mmheap.h defines them as mm_heap_ripple_add,             *)
(* mm_heap_remove_at_index, mm_heap_remove_min, mm_heap_replace_at_index,  *)
(* mm_heap_max and make_mm_heap).                                          *)
(*                                                                         *)
(* Memory.  The buffer `a` is a function 0..storage-1 -> cell.  A cell is  *)
(* a value or Uninit (a slot of `new int[n]` never written).  A heap       *)
(* primitive gets a base pointer, so it works on a "view" of the address   *)
(* space: the buffer, with every uninitialised cell and OobPad cells past  *)
(* the end of the buffer holding a garbage value g chosen by the calling   *)
(* action; addresses past the view read as FarGarbage.                     *)
(*                                                                         *)
(* Style.  A value that is used more than once is bound through a          *)
(* singleton set, Only({ body : x \in {e} }), which reads "let x = e in    *)
(* body" and makes TLC evaluate e once.                                    *)
(***************************************************************************)
EXTENDS Integers, Sequences, FiniteSets, Bags, TLC

\* ------------------------------------------------------------------ bounds
MaxVal   == 2      \* element values are 0..MaxVal
MaxCount == 5      \* insert is explored while count < MaxCount
MaxRange == 5      \* longest range handed to the range constructor
SizeBits == 16     \* modelled width of size_t (the code has 64)
OobPad   == 4      \* cells past the end of the buffer that hold garbage g
MaxReserve == 3    \* largest reserve_size handed to the reserving constructor
DeepLen        == 82   \* length of the ranges that build deep containers
DeepLow        == 70   \* their first DeepLow elements are 0
MaxDeepVal     == 3    \* their elements are 0..MaxDeepVal
MaxDeepRemoves == 2    \* remove calls explored on a deep container
MaxPairRange   == 2    \* longest range the first of two containers is built from
MaxPairCount   == 2    \* insert is explored on two containers while count < MaxPairCount
MaxDropped     == 2    \* inserts a run of scenario S1 may leave out
MaxFixedReserve == 4  \* largest reservation of a fixed container
GrowCount      == 17   \* insert calls explored in a run that grows the buffer
MaxHeap        == 8    \* longest array made into a single heap, all contents tried
TallHeap       == 27   \* length of the sorted arrays made into a heap of five levels
MaxHeapCalls   == 1    \* calls of heap primitives explored on a single heap
MakeLen        == 16   \* length of the long arrays handed to make_mm_heap
MaxMakeVal     == 1    \* largest value in a long array handed to make_mm_heap
IntBits        == 8    \* width of int, half the width of size_t as on the 64-bit build

Vals       == 0..MaxVal
Uninit     == -1                  \* an int never written since new int[n]
FarGarbage == MaxVal + 1          \* what memory past the view reads as
Garbage    == Vals                \* what an indeterminate cell may read as
SIZE_MAX   == 2^SizeBits - 1

\* unsigned arithmetic of size_t
USub(x, y) == (x - y + 2^SizeBits) % (2^SizeBits)

\* the conversion of a size_t to int: the low IntBits bits, two's complement
to_int(x) ==
    IF (x % 2^IntBits) >= 2^(IntBits - 1)
    THEN (x % 2^IntBits) - 2^IntBits ELSE x % 2^IntBits

\* the conversion of an int to size_t
to_size_t(x) == x % 2^SizeBits

\* ------------------------------------------------- memory view primitives
Only(S) == CHOOSE x \in S : TRUE

Rd(M, i) == IF i \in DOMAIN M THEN M[i] ELSE FarGarbage

\* std::swap(M[i], M[j])
swap(M, i, j) ==
    [k \in DOMAIN M |-> IF k = i THEN Rd(M, j) ELSE IF k = j THEN Rd(M, i) ELSE M[k]]

Wr(M, i, v) == [k \in DOMAIN M |-> IF k = i THEN v ELSE M[k]]

\* ------------------------------------------------ mmheap.h: index helpers
parent(i)      == (i - 1) \div 2
has_parent(i)  == i > 0
left(i)        == 2 * i + 1
right(i)       == 2 * i + 2
gparent(i)     == parent(parent(i))
has_gparent(i) == i > 2
child(i, c)    == c = left(i) \/ c = right(i)

RECURSIVE log_2(_)
log_2(i) == IF i <= 1 THEN 0 ELSE 1 + log_2(i \div 2)

min_level(i) == IF i > 0 THEN log_2(i + 1) % 2 = 0 ELSE TRUE

\* ------------------------------- mmheap.h: extreme child / grandchild
\* Each returns <<has, index>>; s is the base address of the heap in M.
\* lt = TRUE looks for the smallest (the min_ functions, with <), lt = FALSE
\* for the largest (the max_ functions, with >).
before(lt, x, y) == IF lt THEN x < y ELSE x > y

\* m, unless candidate c lies within right_index and beats it
better(lt, M, s, m, c, right_index) ==
    IF c <= right_index /\ before(lt, Rd(M, s + c), Rd(M, s + m)) THEN c ELSE m

extreme_child(lt, M, s, i, right_index) ==
    IF left(i) <= right_index
    THEN <<TRUE, better(lt, M, s, left(i), right(i), right_index)>>
    ELSE <<FALSE, 0>>

extreme_gchild(lt, M, s, i, right_index) ==
    IF left(left(i)) <= right_index
    THEN <<TRUE,
           Only({ Only({ better(lt, M, s, m2, right(right(i)), right_index)
                         : m2 \in {better(lt, M, s, m1, left(right(i)), right_index)} })
                  : m1 \in {better(lt, M, s, left(left(i)), right(left(i)), right_index)} })>>
    ELSE <<FALSE, 0>>

extreme_child_or_gchild(lt, M, s, i, right_index) ==
    Only({ IF m[1]
           THEN Only({ <<TRUE, IF gm[1] /\ before(lt, Rd(M, s + gm[2]), Rd(M, s + m[2]))
                               THEN gm[2] ELSE m[2]>>
                       : gm \in {extreme_gchild(lt, M, s, i, right_index)} })
           ELSE m
           : m \in {extreme_child(lt, M, s, i, right_index)} })

min_child(M, s, i, right_index)           == extreme_child(TRUE, M, s, i, right_index)
min_gchild(M, s, i, right_index)          == extreme_gchild(TRUE, M, s, i, right_index)
min_child_or_gchild(M, s, i, right_index) == extreme_child_or_gchild(TRUE, M, s, i, right_index)
max_child(M, s, i, right_index)           == extreme_child(FALSE, M, s, i, right_index)
max_gchild(M, s, i, right_index)          == extreme_gchild(FALSE, M, s, i, right_index)
max_child_or_gchild(M, s, i, right_index) == extreme_child_or_gchild(FALSE, M, s, i, right_index)

\* ----------------------------------------------------- mmheap.h: sift down
\* One body for mmheap_sift_down_min (lt = TRUE) and its mirror
\* mmheap_sift_down_max (lt = FALSE): the source texts differ in < and > only.
\* after the swap with grandchild m: swap again with m's parent if out of order
sift_fix_parent(lt, M1, s, m) ==
    IF before(~lt, Rd(M1, s + m), Rd(M1, s + parent(m)))
    THEN swap(M1, s + m, s + parent(m)) ELSE M1

RECURSIVE sift_down_dir(_, _, _, _, _)
sift_down_dir(lt, M, s, sift_index, right_index) ==
    IF ~(left(sift_index) <= right_index) THEN M
    ELSE Only({
           IF ~before(lt, Rd(M, s + m), Rd(M, s + sift_index)) THEN M
           ELSE IF child(sift_index, m) THEN swap(M, s + m, s + sift_index)
           ELSE Only({ sift_down_dir(lt, M2, s, m, right_index)
                       : M2 \in {sift_fix_parent(lt, swap(M, s + m, s + sift_index), s, m)} })
           : m \in {extreme_child_or_gchild(lt, M, s, sift_index, right_index)[2]} })

mmheap_sift_down_min(M, s, sift_index, right_index) ==
    sift_down_dir(TRUE, M, s, sift_index, right_index)

mmheap_sift_down_max(M, s, sift_index, right_index) ==
    sift_down_dir(FALSE, M, s, sift_index, right_index)

mmheap_sift_down(M, s, sift_index, right_index) ==
    sift_down_dir(min_level(sift_index), M, s, sift_index, right_index)

\* ------------------------------------------------------ mmheap.h: bubble up
\* bubble_up_min (lt = TRUE) and bubble_up_max (lt = FALSE)
RECURSIVE bubble_up_dir(_, _, _, _)
bubble_up_dir(lt, M, s, bubble_index) ==
    IF has_gparent(bubble_index)
       /\ before(lt, Rd(M, s + bubble_index), Rd(M, s + gparent(bubble_index)))
    THEN Only({ bubble_up_dir(lt, M1, s, gparent(bubble_index))
                : M1 \in {swap(M, s + bubble_index, s + gparent(bubble_index))} })
    ELSE M

bubble_up_min(M, s, bubble_index) == bubble_up_dir(TRUE, M, s, bubble_index)
bubble_up_max(M, s, bubble_index) == bubble_up_dir(FALSE, M, s, bubble_index)

bubble_up(M, s, bubble_index) ==
    IF has_parent(bubble_index)
       /\ before(~min_level(bubble_index),
                 Rd(M, s + bubble_index), Rd(M, s + parent(bubble_index)))
    THEN Only({ bubble_up_dir(~min_level(bubble_index), M1, s, parent(bubble_index))
                : M1 \in {swap(M, s + bubble_index, s + parent(bubble_index))} })
    ELSE bubble_up_dir(min_level(bubble_index), M, s, bubble_index)

\* ------------------------------------------------------ mmheap.h: make heap
RECURSIVE make_mm_heap_from(_, _, _, _)
make_mm_heap_from(M, s, current, size) ==
    IF current >= 0
    THEN Only({ make_mm_heap_from(M1, s, current - 1, size)
                : M1 \in {mmheap_sift_down(M, s, current, size - 1)} })
    ELSE M

\* make_mm_heap that sifts the root only
make_mm_heap_root_only(M, s, size) ==
    IF size > 1 THEN mmheap_sift_down(M, s, 0, size - 1) ELSE M

make_mm_heap(M, s, size) ==
    IF size > 1 THEN make_mm_heap_from(M, s, parent(size - 1), size) ELSE M

\* ------------------------------------------ mmheap.h: add, max, ripple add
\* Results are records; err names the exception thrown ("none" when none).
\* mm_heap_add that stores the value one cell past the end of the heap
mm_heap_add_beyond(value, M, s, cnt, max_size) ==
    IF cnt < max_size
    THEN [err |-> "none", count |-> cnt + 1,
          M |-> Only({ bubble_up(M1, s, cnt + 1) : M1 \in {Wr(M, s + cnt + 1, value)} })]
    ELSE [err |-> "runtime_error", count |-> cnt, M |-> M]

mm_heap_add(value, M, s, cnt, max_size) ==
    IF cnt < max_size
    THEN [err |-> "none", count |-> cnt + 1,
          M |-> Only({ bubble_up(M1, s, cnt) : M1 \in {Wr(M, s + cnt, value)} })]
    ELSE [err |-> "runtime_error", count |-> cnt, M |-> M]

\* mm_heap_max without the check of count
mm_heap_max_unguarded(M, s, cnt) ==
    [err |-> "none",
     val |-> Only({ IF m[1] THEN Rd(M, s + m[2]) ELSE Rd(M, s)
                    : m \in {max_child(M, s, 0, USub(cnt, 1))} })]

mm_heap_max(M, s, cnt) ==
    IF cnt < 1 THEN [err |-> "runtime_error"]
    ELSE [err |-> "none",
          val |-> Only({ IF m[1] THEN Rd(M, s + m[2]) ELSE Rd(M, s)
                         : m \in {max_child(M, s, 0, cnt - 1)} })]

\* ripple_replace_max without the store heap_array[m] = value
ripple_replace_max_unwritten(value, M, s, m, max_size) ==
    IF max_size > 1 THEN mmheap_sift_down(M, s, m, max_size - 1) ELSE M

\* ripple_replace_max that stores the value and repairs nothing
ripple_replace_max_unrepaired(value, M, s, m, max_size) == Wr(M, s + m, value)

\* the full-heap branch of mm_heap_ripple_add, m the index of the maximum
ripple_replace_max(value, M, s, m, max_size) ==
    IF max_size > 1
    THEN Only({ mmheap_sift_down(M2, s, m, max_size - 1)
                : M2 \in {IF value < Rd(M, s) THEN swap(Wr(M, s + m, value), s, s + m)
                                              ELSE Wr(M, s + m, value)} })
    ELSE Wr(M, s + m, value)

\* mm_heap_ripple_add that replaces the maximum of a full heap and reports
\* no overflow
mm_heap_ripple_add_silent(value, M, s, cnt, max_size) ==
    IF cnt # max_size
    THEN Only({ [err |-> r.err, M |-> r.M, count |-> r.count,
                 rippled |-> FALSE, max_value |-> 0]
                : r \in {mm_heap_add(value, M, s, cnt, max_size)} })
    ELSE Only({ [err |-> "none", M |-> ripple_replace_max(value, M, s, m, max_size),
                 count |-> cnt, rippled |-> FALSE, max_value |-> Rd(M, s + m)]
                : m \in {IF max_size > 1 THEN max_child(M, s, 0, max_size - 1)[2] ELSE 0} })

mm_heap_ripple_add(value, M, s, cnt, max_size) ==
    IF cnt # max_size
    THEN Only({ [err |-> r.err, M |-> r.M, count |-> r.count,
                 rippled |-> FALSE, max_value |-> 0]
                : r \in {mm_heap_add(value, M, s, cnt, max_size)} })
    ELSE Only({ [err |-> "none", M |-> ripple_replace_max(value, M, s, m, max_size),
                 count |-> cnt, rippled |-> TRUE, max_value |-> Rd(M, s + m)]
                : m \in {IF max_size > 1 THEN max_child(M, s, 0, max_size - 1)[2] ELSE 0} })

\* -------------------------------- mmheap.h: replace / remove at index, min
\* the repair after heap_array[index] = new_value (M1 is the heap after it)
replace_repair(new_value, old_value, index, M1, s, cnt) ==
    IF before(min_level(index), new_value, old_value)
    THEN bubble_up_dir(min_level(index), M1, s, index)
    ELSE Only({ sift_down_dir(min_level(index), M2, s, index, USub(cnt, 1))
                : M2 \in {IF has_parent(index)
                             /\ before(min_level(index), Rd(M1, s + parent(index)), new_value)
                          THEN swap(M1, s + parent(index), s + index) ELSE M1} })

mm_heap_replace_at_index(new_value, index, M, s, cnt) ==
    IF cnt = 0 THEN [err |-> "runtime_error", M |-> M]
    ELSE IF index > cnt THEN [err |-> "range_error", M |-> M]
    ELSE [err |-> "none", val |-> Rd(M, s + index),
          M |-> Only({ replace_repair(new_value, Rd(M, s + index), index, M1, s, cnt)
                       : M1 \in {Wr(M, s + index, new_value)} })]

mm_heap_remove_at_index(index, M, s, cnt) ==
    IF cnt = 0 THEN [err |-> "runtime_error", M |-> M, count |-> cnt]
    ELSE IF index > cnt THEN [err |-> "range_error", M |-> M, count |-> cnt]
    ELSE Only({ [err |-> r.err, M |-> r.M, count |-> cnt - 1, val |-> r.val]
                : r \in {mm_heap_replace_at_index(Rd(M, s + cnt - 1), index, M, s, cnt)} })

\* mm_heap_remove_min without the sift-down
mm_heap_remove_min_unsifted(M, s, cnt) ==
    IF cnt = 0 THEN [err |-> "runtime_error", M |-> M, count |-> cnt]
    ELSE [err |-> "none", count |-> cnt - 1, val |-> Rd(M, s),
          M |-> swap(M, s, s + cnt - 1)]

mm_heap_remove_min(M, s, cnt) ==
    IF cnt = 0 THEN [err |-> "runtime_error", M |-> M, count |-> cnt]
    ELSE [err |-> "none", count |-> cnt - 1, val |-> Rd(M, s),
          M |-> Only({ mmheap_sift_down(M1, s, 0, USub(cnt - 1, 1))
                       : M1 \in {swap(M, s, s + cnt - 1)} })]

mm_heap_min(M, s, cnt) ==
    IF cnt < 1 THEN [err |-> "runtime_error"]
    ELSE [err |-> "none", val |-> Rd(M, s)]

\* value is assigned m.second, the index of the larger child, when the root
\* has a child
mm_heap_remove_max(M, s, cnt) ==
    IF cnt = 0 THEN [err |-> "runtime_error", M |-> M, count |-> cnt]
    ELSE Only({ Only({ [err |-> r.err, M |-> r.M, count |-> r.count,
                        val |-> IF m[1] THEN m[2] ELSE Rd(M, s)]
                       : r \in {mm_heap_remove_at_index(IF m[1] THEN m[2] ELSE 0,
                                                        M, s, cnt)} })
                : m \in {max_child(M, s, 0, cnt - 1)} })

\* --------------------------------------------- heaparray.h: the container
\* A container is a record [a, storage, count, fixed]; a = <<>> is nullptr.
HeapArray0 == [a |-> <<>>, storage |-> 0, count |-> 0, fixed |-> FALSE]

\* ceil(sqrt(n)) as computed by <cmath> on the small integers of the model
CeilSqrt(n) == CHOOSE k \in 0..n : k * k >= n /\ (k = 0 \/ (k - 1) * (k - 1) < n)
FloorSqrt(n) == CHOOSE k \in 0..n : k * k <= n /\ (k + 1) * (k + 1) > n

\* The address space a primitive sees through the base pointer, and the
\* buffer it leaves behind (a dead cell still holding garbage stays Uninit).
View(h, g) ==
    [i \in 0..(h.storage + OobPad - 1) |->
        IF i < h.storage /\ h.a[i] # Uninit THEN h.a[i] ELSE g]

Commit(h, M, g, newcount) ==
    [i \in 0..(h.storage - 1) |->
        IF i >= newcount /\ h.a[i] = Uninit /\ M[i] = g THEN Uninit ELSE M[i]]

final_partition(cnt)  == IF cnt > 0 THEN CeilSqrt(cnt) - 1 ELSE 0
partition_size(p)     == p * 2 + 1
partition_start(p)    == p * p
partition_end(p)      == p * p + p * 2
index_to_partition(i) == IF i > 0 THEN FloorSqrt(i) ELSE 0

count_in_partition(cnt, p) ==
    IF p >= final_partition(cnt) THEN USub(cnt, p * p) ELSE partition_size(p)

max_in_partition(M, cnt, p) ==
    mm_heap_max(M, partition_start(p), count_in_partition(cnt, p)).val

range_in_partition(M, cnt, p) ==
    <<Rd(M, partition_start(p)), max_in_partition(M, cnt, p)>>

\* The binary search of _find_partition; matched tells whether the loop
\* ended through its match condition (p_index = mid) or left p_index = 0.
\* a match condition that ignores for_insert
partition_matches_pure(M, cnt, value, for_insert, mid, range) ==
    range[1] <= value /\ value <= range[2]

\* a match condition that does not look at the maximum of the partition
partition_matches_loose(M, cnt, value, for_insert, mid, range) ==
    range[1] <= value

partition_matches(M, cnt, value, for_insert, mid, range) ==
    \/ (range[1] <= value /\ value <= range[2])
    \/ (for_insert
        /\ (\/ (mid > 0 /\ value <= range[2] /\ max_in_partition(M, cnt, mid - 1) <= value)
            \/ (mid = 0 /\ value <= range[2])
            \/ (mid = final_partition(cnt) /\ range[1] <= value)))

\* the result r of the rest of the search, after partition mid was probed
probed(mid, r) == [r EXCEPT !.probes = <<mid>> \o @]

\* probes lists the partitions whose range the loop has looked at, in order
RECURSIVE find_partition_loop(_, _, _, _, _, _)
find_partition_loop(M, cnt, value, for_insert, lft, rgt) ==
    IF ~(lft <= rgt) THEN [p |-> 0, matched |-> FALSE, probes |-> <<>>]
    ELSE Only({
           IF partition_matches(M, cnt, value, for_insert, (lft + rgt) \div 2, range)
           THEN [p |-> (lft + rgt) \div 2, matched |-> TRUE,
                 probes |-> <<(lft + rgt) \div 2>>]
           ELSE IF range[2] < value
           THEN probed((lft + rgt) \div 2,
                       find_partition_loop(M, cnt, value, for_insert,
                                           (lft + rgt) \div 2 + 1, rgt))
           ELSE IF (lft + rgt) \div 2 = 0
           THEN [p |-> 0, matched |-> FALSE, probes |-> <<0>>]
           ELSE probed((lft + rgt) \div 2,
                       find_partition_loop(M, cnt, value, for_insert, lft,
                                           USub((lft + rgt) \div 2, 1)))
           : range \in {range_in_partition(M, cnt, (lft + rgt) \div 2)} })

\* a search that looks at partition 0 once more when its loop has ended
\* without a match
find_partition_res_again(M, cnt, value, for_insert) ==
    IF cnt > 0
    THEN Only({ IF r.matched THEN r ELSE [r EXCEPT !.probes = @ \o <<0>>]
                : r \in {find_partition_loop(M, cnt, value, for_insert, 0,
                                              final_partition(cnt))} })
    ELSE [p |-> 0, matched |-> FALSE, probes |-> <<>>]

find_partition_res(M, cnt, value, for_insert) ==
    IF cnt > 0
    THEN find_partition_loop(M, cnt, value, for_insert, 0, final_partition(cnt))
    ELSE [p |-> 0, matched |-> FALSE, probes |-> <<>>]

find_partition(M, cnt, value, for_insert) ==
    find_partition_res(M, cnt, value, for_insert).p

\* the linear scan of _find over partition p: the first index holding value
find_scan(M, cnt, value, p) ==
    Only({ IF cnt > 0 /\ hits # {}
           THEN Only({ <<TRUE, index, p, USub(index, partition_start(p))>>
                       : index \in {CHOOSE i \in hits : \A j \in hits : i <= j} })
           ELSE <<FALSE, 0, p, USub(0, partition_start(p))>>
           : hits \in {{i \in partition_start(p)..partition_end(p) : Rd(M, i) = value}} })

\* _find: <<found, index, partition, offset in partition>>
find_tuple(M, cnt, value) ==
    Only({ find_scan(M, cnt, value, p) : p \in {find_partition(M, cnt, value, FALSE)} })

find(h, value, g) ==
    Only({ <<t[1], t[2]>> : t \in {find_tuple(View(h, g), h.count, value)} })

contains(h, value, g) == IF h.count > 0 THEN find(h, value, g)[1] ELSE FALSE

min(h) == h.a[0]

max(h, g) ==
    mm_heap_max(View(h, g), partition_start(final_partition(h.count)),
                count_in_partition(h.count, final_partition(h.count)))

size(h) == h.count

\* operator[] that lets index = count through
subscript_inclusive(h, index) ==
    IF index > h.count THEN [err |-> "out_of_range", val |-> 0]
    ELSE [err |-> "none", val |-> Rd(h.a, index)]

\* operator[](index): the cell read, or std::out_of_range
subscript(h, index) ==
    IF index >= h.count THEN [err |-> "out_of_range", val |-> 0]
    ELSE [err |-> "none", val |-> h.a[index]]

\* ---------------------------------------------------- resize, grow, build
\* the buffer of n cells that _resize allocates, keeping min(count, n) cells
resized_buffer(h, n) ==
    [i \in 0..(n - 1) |->
        IF h.a # <<>> /\ i < h.count /\ i < n THEN h.a[i] ELSE Uninit]

resize(h, new_size, round_up) ==
    IF h.fixed THEN [err |-> "runtime_error", h |-> h]
    ELSE IF new_size > 0
    THEN Only({ [err |-> "none",
                 h |-> [h EXCEPT !.a = resized_buffer(h, n), !.storage = n]]
                : n \in {IF round_up
                         THEN (CeilSqrt(new_size) * CeilSqrt(new_size)) % 2^SizeBits
                         ELSE new_size} })
    ELSE [err |-> "none", h |-> [h EXCEPT !.a = <<>>, !.storage = 0, !.count = 0]]

MIN_HEAPARRAY_ALLOCATION == 4

\* int next_size = storage * 2, replaced by the minimum when it is 0
next_size(h) ==
    IF to_int(h.storage * 2) = 0 THEN MIN_HEAPARRAY_ALLOCATION ELSE to_int(h.storage * 2)

\* _grow that asks _resize not to round up
grow_unrounded(h) == resize(h, to_size_t(next_size(h)), FALSE)

grow(h) == resize(h, to_size_t(next_size(h)), TRUE)

\* std::sort(a, a + count): the ascending arrangement of the first n cells
sort(M, n) ==
    [i \in DOMAIN M |->
        IF i < n
        THEN CHOOSE v \in {M[k] : k \in 0..(n - 1)} :
                 /\ Cardinality({k \in 0..(n - 1) : M[k] < v}) <= i
                 /\ i < Cardinality({k \in 0..(n - 1) : M[k] <= v})
        ELSE M[i]]

RECURSIVE init_heaps_from(_, _, _)
init_heaps_from(M, cnt, p) ==
    IF p <= final_partition(cnt)
    THEN Only({ init_heaps_from(M1, cnt, p + 1)
                : M1 \in {make_mm_heap(M, partition_start(p), count_in_partition(cnt, p))} })
    ELSE M

\* _init_heaps without the std::sort
init_heaps_unsorted(M, cnt) == init_heaps_from(M, cnt, 1)

init_heaps(M, cnt) == Only({ init_heaps_from(M1, cnt, 1) : M1 \in {sort(M, cnt)} })

\* HeapArray(reserve_size, allow_resize): reserve_size uninitialised cells
HeapArrayReserve(reserve_size, allow_resize) ==
    [a |-> [i \in 0..(reserve_size - 1) |-> Uninit], storage |-> reserve_size,
     count |-> 0, fixed |-> ~allow_resize]

\* HeapArray(begin, end, physical_end, allow_resize); R is [begin, end) as a
\* sequence and phys = physical_end - begin (0 stands for nullptr).
range_copied(h1, R) ==
    [i \in 0..(h1.storage - 1) |-> IF i < Len(R) THEN R[i + 1] ELSE h1.a[i]]

HeapArrayFromRange(R, phys, allow_resize) ==
    Only({ [h1 EXCEPT !.a = init_heaps(range_copied(h1, R), Len(R)),
                      !.count = Len(R), !.fixed = ~allow_resize]
           : h1 \in {resize(HeapArray0, IF phys # 0 THEN phys ELSE Len(R), allow_resize).h} })

\* a copy assignment that copies the pointer, not the cells
copy_assign_shallow(lhs, rhs) == [lhs |-> rhs, rhs |-> rhs, shared |-> TRUE]

\* operator=(const HeapArray& rhs) on distinct objects: lhs gets a fresh buffer
\* of rhs.storage cells holding the first rhs.count cells of rhs; `shared`
\* tells whether the two objects end up pointing at one buffer
copy_assign(lhs, rhs) ==
    [lhs |-> [a |-> [i \in 0..(rhs.storage - 1) |->
                        IF i < rhs.count THEN rhs.a[i] ELSE Uninit],
              storage |-> rhs.storage, count |-> rhs.count, fixed |-> rhs.fixed],
     rhs |-> rhs, shared |-> FALSE]

\* a move assignment that leaves the source as it was
move_assign_keeping(lhs, rhs) == [lhs |-> rhs, rhs |-> rhs, shared |-> TRUE]

\* operator=(HeapArray&& rhs) on distinct objects: lhs takes the buffer of rhs,
\* rhs is left with a null buffer
move_assign(lhs, rhs) ==
    [lhs |-> [a |-> rhs.a, storage |-> rhs.storage, count |-> rhs.count,
              fixed |-> rhs.fixed],
     rhs |-> [a |-> <<>>, storage |-> 0, count |-> 0, fixed |-> FALSE],
     shared |-> FALSE]

\* ----------------------------------------------------------- insert, remove
\* what a call leaves behind: the buffer M written back, count as given
outcome(h, g, ret, M, newcount) ==
    [ret |-> ret, h |-> [h EXCEPT !.a = Commit(h, M, g, newcount), !.count = newcount]]

\* one turn of the do-while loop of insert: the partition it worked on, the count of that
\* partition before the call, and whether the call reported an overflow
ripple_step(cnt, partition, r) ==
    [partition |-> partition, p_count |-> count_in_partition(cnt, partition),
     rippled |-> r.err = "none" /\ r.rippled]

\* the result r of the rest of the loop, after the turn st
stepped(st, r) == [r EXCEPT !.steps = <<st>> \o @]

\* the do-while loop of insert: ripple the displaced maximum forward;
\* steps lists the turns of the loop, in order
RECURSIVE insert_loop(_, _, _, _)
insert_loop(M, cnt, value, partition) ==
    Only({ IF r.err # "none"
           THEN [err |-> r.err, M |-> r.M, steps |-> <<ripple_step(cnt, partition, r)>>]
           ELSE IF r.rippled
           THEN stepped(ripple_step(cnt, partition, r),
                        insert_loop(r.M, cnt, r.max_value, partition + 1))
           ELSE [err |-> "none", M |-> r.M, steps |-> <<ripple_step(cnt, partition, r)>>]
           : r \in {mm_heap_ripple_add(value, M, partition_start(partition),
                                       count_in_partition(cnt, partition),
                                       partition_size(partition))} })

\* insert after the capacity check, on the (possibly grown) container h1
insert_into(h1, M, value, g) ==
    Only({ IF r.err # "none" THEN outcome(h1, g, r.err, r.M, h1.count)
           ELSE outcome(h1, g, "ok", r.M, h1.count + 1)
           : r \in {insert_loop(M, h1.count, value,
                                find_partition(M, h1.count, value, TRUE))} })

\* insert without the check of `fixed`
insert_unchecked(h, value, g) ==
    Only({ Only({ insert_into(h1, M, value, g) : M \in {View(h1, g)} })
           : h1 \in {IF h.count = h.storage THEN grow(h).h ELSE h} })

insert(h, value, g) ==
    IF h.count = h.storage /\ h.fixed THEN [ret |-> "length_error", h |-> h]
    ELSE Only({ Only({ insert_into(h1, M, value, g) : M \in {View(h1, g)} })
                : h1 \in {IF h.count = h.storage THEN grow(h).h ELSE h} })

\* the ripple through the partitions strictly between the final one and the
\* one holding the victim: for(p = _final_partition() - 1; p > partition; --p)
RECURSIVE remove_ripple(_, _, _, _, _)
remove_ripple(M, cnt, ripple, p, partition) ==
    IF p > partition
    THEN Only({ IF r.err # "none" THEN [err |-> r.err, M |-> r.M, val |-> ripple]
                ELSE remove_ripple(r.M, cnt, r.val, p - 1, partition)
                : r \in {mm_heap_replace_at_index(ripple, 0, M, partition_start(p),
                                                  count_in_partition(cnt, p))} })
    ELSE [err |-> "none", M |-> M, val |-> ripple]

\* remove, victim in the final partition
remove_trivial(h, M, g, find_res) ==
    Only({ IF r.err # "none" THEN outcome(h, g, r.err, r.M, h.count)
           ELSE outcome(h, g, "true", r.M, h.count - 1)
           : r \in {mm_heap_remove_at_index(find_res[4], M, partition_start(find_res[3]),
                                            count_in_partition(h.count, find_res[3]))} })

\* remove, last step of the ripple: replace the victim by the carried value
remove_replace_victim(h, g, find_res, r1) ==
    IF r1.err # "none" THEN outcome(h, g, r1.err, r1.M, h.count)
    ELSE Only({ IF r2.err # "none" THEN outcome(h, g, r2.err, r2.M, h.count)
                ELSE outcome(h, g, "true", r2.M, h.count - 1)
                : r2 \in {mm_heap_replace_at_index(
                              r1.val, find_res[4], r1.M, partition_start(find_res[3]),
                              count_in_partition(h.count, find_res[3]))} })

\* remove, victim before the final partition: ripple from the right-most one
remove_rippling(h, M, g, find_res, fp) ==
    Only({ IF r0.err # "none" THEN outcome(h, g, r0.err, r0.M, h.count)
           ELSE Only({ remove_replace_victim(h, g, find_res, r1)
                       : r1 \in {remove_ripple(r0.M, h.count, r0.val, fp - 1, find_res[3])} })
           : r0 \in {mm_heap_remove_min(M, partition_start(fp),
                                        count_in_partition(h.count, fp))} })

remove_found(h, M, g, find_res) ==
    IF ~find_res[1] THEN [ret |-> "false", h |-> h]
    ELSE IF find_res[3] = final_partition(h.count)
    THEN remove_trivial(h, M, g, find_res)
    ELSE remove_rippling(h, M, g, find_res, final_partition(h.count))

remove(h, value, g) ==
    Only({ Only({ remove_found(h, M, g, find_res)
                  : find_res \in {find_tuple(M, h.count, value)} })
           : M \in {View(h, g)} })

\* ------------------------------------------------------------ state machine
\* a, storage, count, fixed: the fields of the container h
\* other:  a second container h2, <<>> while it is not constructed, else <<h2>>
\* shared: h and h2 point at the same buffer
\* src:    the array a driver works from (test_values of the test program)
\* pos:    how many elements of src the driver's loop has gone through
VARIABLES a, storage, count, fixed, other, shared, src, pos

vars == <<a, storage, count, fixed, other, shared, src, pos>>

Self == [a |-> a, storage |-> storage, count |-> count, fixed |-> fixed]

Ranges == UNION {[1..n -> Vals] : n \in 0..MaxRange}

InitFrom(h) ==
    /\ a = h.a /\ storage = h.storage /\ count = h.count /\ fixed = h.fixed

\* one container, no driver array
Alone == other = <<>> /\ shared = FALSE /\ src = <<>> /\ pos = 0

\* an empty resizable container: default constructed or with reserved cells
InitEmpty ==
    /\ \/ InitFrom(HeapArray0)
       \/ \E n \in 0..MaxReserve : InitFrom(HeapArrayReserve(n, TRUE))
    /\ Alone

Init ==
    \/ InitEmpty
    \/ (\E R \in Ranges : InitFrom(HeapArrayFromRange(R, 0, TRUE))) /\ Alone

\* a call on h with result r: the container becomes r.h
Step(r) ==
    /\ a' = r.h.a /\ storage' = r.h.storage /\ count' = r.h.count /\ fixed' = r.h.fixed

\* what a write through the buffer of h1 does to the cells of o: they are the
\* same cells when the two objects share their buffer
Through(o, h1) ==
    IF shared /\ o # <<>> /\ h1.storage = o[1].storage
    THEN <<[o[1] EXCEPT !.a = h1.a]>>
    ELSE o

\* insert of a value of V, explored while count < bound
InsertOf(V, bound) ==
    /\ count < bound
    /\ \E v \in V, g \in Garbage :
          \E r \in {insert(Self, v, g)} : Step(r) /\ other' = Through(other, r.h)
    /\ UNCHANGED <<shared, src, pos>>

Insert == InsertOf(Vals, MaxCount)

Remove ==
    /\ \E v \in Vals, g \in Garbage :
          \E r \in {remove(Self, v, g)} : Step(r) /\ other' = Through(other, r.h)
    /\ UNCHANGED <<shared, src, pos>>

Next == Insert \/ Remove

Spec == Init /\ [][Next]_vars

\* Deep containers: built from a sorted range of DeepLen elements, so that a
\* partition holds a heap of five levels, then taken apart by remove calls.
DeepVals == 0..MaxDeepVal

\* c[j] is the position of the last element smaller than j
DeepCuts ==
    {c \in [1..MaxDeepVal -> DeepLow..DeepLen] :
        \A j \in 1..(MaxDeepVal - 1) : c[j] <= c[j + 1]}

DeepRange(c) == [i \in 1..DeepLen |-> Cardinality({j \in 1..MaxDeepVal : c[j] < i})]

DeepInit ==
    /\ \E c \in DeepCuts : InitFrom(HeapArrayFromRange(DeepRange(c), 0, TRUE))
    /\ Alone

DeepRemove ==
    /\ count > DeepLen - MaxDeepRemoves
    /\ \E v \in DeepVals, g \in Garbage :
          \E r \in {remove(Self, v, g)} : Step(r)
    /\ UNCHANGED <<other, shared, src, pos>>

DeepSpec == DeepInit /\ [][DeepRemove]_vars

\* Growth: runs of insert calls alone on a default constructed container,
\* long enough for the buffer to grow three times.
GrowInit == InitFrom(HeapArray0) /\ Alone

GrowInsert == InsertOf(Vals, GrowCount)

GrowSpec == GrowInit /\ [][GrowInsert]_vars

\* Scenario S1: the values 3, 1, 4, 1, 5, 9, 2, 6, 5, 3, 5 are inserted in this
\* order into a default constructed container; the runs explored are this
\* one and the ones that leave out up to MaxDropped of the inserts.
S1 == <<3, 1, 4, 1, 5, 9, 2, 6, 5, 3, 5>>

\* the sequence R restricted to the positions in K, in order
RECURSIVE Pick(_, _)
Pick(R, K) ==
    IF K = {} THEN <<>>
    ELSE Only({ Pick(R, K \ {k}) \o <<R[k]>>
                : k \in {CHOOSE m \in K : \A n \in K : n <= m} })

ScenarioSources ==
    {Pick(S1, K) : K \in {K \in SUBSET (1..Len(S1)) :
                             Cardinality(K) >= Len(S1) - MaxDropped}}

ScenarioInit ==
    /\ InitFrom(HeapArray0)
    /\ src \in ScenarioSources
    /\ pos = 0 /\ other = <<>> /\ shared = FALSE

ScenarioInsert ==
    /\ pos < Len(src)
    /\ \E g \in Garbage : \E r \in {insert(Self, src[pos + 1], g)} : Step(r)
    /\ pos' = pos + 1
    /\ UNCHANGED <<other, shared, src>>

ScenarioSpec == ScenarioInit /\ [][ScenarioInsert]_vars

\* Two containers: h, built from a short range, and h2, made from h by copy
\* or by move; after that either one is inserted into and removed from.
PairRanges == UNION {[1..n -> Vals] : n \in 0..MaxPairRange}

PairInit ==
    /\ \E R \in PairRanges, allow_resize \in BOOLEAN :
          InitFrom(HeapArrayFromRange(R, Len(R), allow_resize))
    /\ Alone

\* the outcome r of an assignment h2 = h or h2 = std::move(h)
Assigned(r) ==
    /\ other' = <<r.lhs>> /\ shared' = r.shared
    /\ a' = r.rhs.a /\ storage' = r.rhs.storage /\ count' = r.rhs.count
    /\ fixed' = r.rhs.fixed
    /\ UNCHANGED <<src, pos>>

\* HeapArray h2(h): operator= on a default constructed object
CopyConstruct == other = <<>> /\ Assigned(copy_assign(HeapArray0, Self))

\* h2 = h
CopyAssign == other # <<>> /\ Assigned(copy_assign(other[1], Self))

\* HeapArray h2(std::move(h))
MoveConstruct == other = <<>> /\ Assigned(move_assign(HeapArray0, Self))

\* h2 = std::move(h)
MoveAssign == other # <<>> /\ Assigned(move_assign(other[1], Self))

\* a call on h2 with result r; its writes reach h when the buffer is shared
StepOther(r) ==
    /\ other' = <<r.h>>
    /\ a' = IF shared /\ r.h.storage = storage THEN r.h.a ELSE a
    /\ UNCHANGED <<storage, count, fixed, shared, src, pos>>

InsertOther ==
    /\ other # <<>> /\ other[1].count < MaxPairCount
    /\ \E v \in Vals, g \in Garbage : StepOther(insert(other[1], v, g))

RemoveOther ==
    /\ other # <<>>
    /\ \E v \in Vals, g \in Garbage : StepOther(remove(other[1], v, g))

PairInsert == InsertOf(Vals, MaxPairCount)

PairOps == PairInsert \/ Remove \/ InsertOther \/ RemoveOther

CopySpec == PairInit /\ [][CopyConstruct \/ CopyAssign \/ PairOps]_vars

MoveSpec == PairInit /\ [][MoveConstruct \/ MoveAssign \/ PairOps]_vars

\* Fixed containers: constructed with a reservation and allow_resize = false.
FixedInit ==
    /\ \E n \in 0..MaxFixedReserve : InitFrom(HeapArrayReserve(n, FALSE))
    /\ Alone

FixedSpec == FixedInit /\ [][Next]_vars

\* The test program: ha2 is built from the array test_values (src), then the
\* values of the array are removed from ha2 one at a time, in array order,
\* until a remove fails.
HasValue(R, v) == v \in {R[k] : k \in 1..Len(R)}

\* the sequence R without its first occurrence of v
Without(R, v) ==
    Only({ SubSeq(R, 1, i - 1) \o SubSeq(R, i + 1, Len(R))
           : i \in {CHOOSE k \in 1..Len(R) : R[k] = v /\ \A m \in 1..(k - 1) : R[m] # v} })

\* an array holding the values of a deep range, v1 and v2 up front
DeepSource(c, v1, v2) == <<v1, v2>> \o Without(Without(DeepRange(c), v1), v2)

Built(R, allow_resize) ==
    /\ InitFrom(HeapArrayFromRange(R, Len(R), allow_resize))
    /\ src = R /\ pos = 0 /\ other = <<>> /\ shared = FALSE

DrainInit == \E R \in Ranges, allow_resize \in BOOLEAN : Built(R, allow_resize)

DeepDrainInit ==
    \E c \in DeepCuts, v1 \in DeepVals, v2 \in DeepVals :
        /\ HasValue(DeepRange(c), v1) /\ HasValue(Without(DeepRange(c), v1), v2)
        /\ Built(DeepSource(c, v1, v2), FALSE)

\* one turn of the loop: remove the next value of the array; a failed remove
\* ends the loop
Drain ==
    /\ pos < Len(src)
    /\ Len(src) < DeepLen \/ pos < MaxDeepRemoves
    /\ \E g \in Garbage :
          \E r \in {remove(Self, src[pos + 1], g)} :
              /\ Step(r)
              /\ pos' = IF r.ret = "true" THEN pos + 1 ELSE Len(src)
    /\ UNCHANGED <<other, shared, src>>

DrainSpec == DrainInit /\ [][Drain]_vars

DeepDrainSpec == DeepDrainInit /\ [][Drain]_vars

\* Containers of every construction: default constructed, reserved (resizable
\* or fixed), built from a short range or from a deep one; the short ones are
\* taken through insert and remove, the deep ones through remove.
WideInit == Init \/ FixedInit \/ DeepInit

\* remove on a short container
ShortRemove == count <= MaxCount /\ Remove

WideNext == Insert \/ ShortRemove \/ DeepRemove

WideSpec == WideInit /\ [][WideNext]_vars

\* A single heap.  The primitives of mmheap.h are called on an array of
\* max_size cells whose first count cells are a min-max heap, as HeapArray
\* calls them on a partition.  The array is the buffer a, max_size is storage
\* and the base address is 0; pos counts the calls made.
HeapRanges == UNION {[1..n -> Vals] : n \in 0..MaxHeap}

\* the sorted arrays of TallHeap values; c[j] is the number of elements < j
TallCuts ==
    {c \in [1..MaxVal -> 0..TallHeap] : \A j \in 1..(MaxVal - 1) : c[j] <= c[j + 1]}

TallRange(c) == [i \in 1..TallHeap |-> Cardinality({j \in 1..MaxVal : c[j] < i})]

\* the array of max_size cells that starts with R, after make_mm_heap
HeapMade(R, max_size) ==
    [a |-> make_mm_heap([i \in 0..(max_size - 1) |->
                            IF i < Len(R) THEN R[i + 1] ELSE Uninit], 0, Len(R)),
     storage |-> max_size, count |-> Len(R), fixed |-> FALSE]

HeapInit ==
    /\ \/ \E R \in HeapRanges, max_size \in 1..MaxHeap :
              Len(R) <= max_size /\ InitFrom(HeapMade(R, max_size))
       \/ \E c \in TallCuts : InitFrom(HeapMade(TallRange(c), TallHeap))
    /\ Alone

\* a call that leaves the view M and newcount elements
HeapStep(M, newcount, g) ==
    /\ Step(outcome(Self, g, "ok", M, newcount))
    /\ pos' = pos + 1
    /\ UNCHANGED <<other, shared, src>>

HeapRippleAdd ==
    /\ pos < MaxHeapCalls
    /\ \E v \in Vals, g \in Garbage :
          \E r \in {mm_heap_ripple_add(v, View(Self, g), 0, count, storage)} :
              HeapStep(r.M, r.count, g)

HeapReplaceAtIndex ==
    /\ pos < MaxHeapCalls
    /\ \E v \in Vals, index \in 0..(count - 1), g \in Garbage :
          \E r \in {mm_heap_replace_at_index(v, index, View(Self, g), 0, count)} :
              HeapStep(r.M, count, g)

HeapRemoveAtIndex ==
    /\ pos < MaxHeapCalls
    /\ \E index \in 0..(count - 1), g \in Garbage :
          \E r \in {mm_heap_remove_at_index(index, View(Self, g), 0, count)} :
              HeapStep(r.M, r.count, g)

HeapRemoveMin ==
    /\ pos < MaxHeapCalls
    /\ \E g \in Garbage :
          \E r \in {mm_heap_remove_min(View(Self, g), 0, count)} :
              HeapStep(r.M, r.count, g)

HeapRemoveMax ==
    /\ pos < MaxHeapCalls
    /\ \E g \in Garbage :
          \E r \in {mm_heap_remove_max(View(Self, g), 0, count)} :
              HeapStep(r.M, r.count, g)

HeapNext ==
    \/ HeapRippleAdd \/ HeapReplaceAtIndex \/ HeapRemoveAtIndex
    \/ HeapRemoveMin \/ HeapRemoveMax

HeapSpec == HeapInit /\ [][HeapNext]_vars

\* make_mm_heap on an array.  src is the array as the caller filled it, the
\* buffer a holds its cells, and pos counts the calls made.
MakeRanges == HeapRanges \cup [1..MakeLen -> 0..MaxMakeVal]

\* the array R before make_mm_heap is called on it
Unmade(R) ==
    [a |-> [i \in 0..(IF Len(R) = 0 THEN 0 ELSE Len(R) - 1) |->
               IF i < Len(R) THEN R[i + 1] ELSE Uninit],
     storage |-> IF Len(R) = 0 THEN 1 ELSE Len(R), count |-> Len(R), fixed |-> FALSE]

MakeInit ==
    \E R \in MakeRanges :
        /\ InitFrom(Unmade(R))
        /\ other = <<>> /\ shared = FALSE /\ src = R /\ pos = 0

MakeHeap ==
    /\ pos = 0
    /\ \E g \in Garbage : HeapStep(make_mm_heap(View(Self, g), 0, count), count, g)

MakeSpec == MakeInit /\ [][MakeHeap]_vars

\* ---------------------------------------------------------------- properties
\* the live cells: the first count cells of the buffer
Live == 0..(count - 1)

\* a live cell whose value is determinate (written since its allocation)
Definite(i) == a[i] # Uninit

\* C1: global ordering: whenever i lies in an earlier partition than j, the
\* live element at i is <= the live element at j (so the maximum of partition
\* p is <= the first cell of partition p + 1).
C1_GlobalOrdering ==
    \A i, j \in Live :
        (index_to_partition(i) < index_to_partition(j) /\ Definite(i) /\ Definite(j))
            => a[i] <= a[j]

\* local index j lies below local index i in the implicit binary tree
RECURSIVE Descendant(_, _)
Descendant(i, j) == j > i /\ (parent(j) = i \/ Descendant(i, parent(j)))

\* the heap order of partition p between local indices i and j
HeapOrdered(p, i, j) ==
    IF min_level(i) THEN a[partition_start(p) + i] <= a[partition_start(p) + j]
                    ELSE a[partition_start(p) + i] >= a[partition_start(p) + j]

\* C2: local heap order: in every partition, a live element on a min level
\* is <= each of its live descendants and one on a max level is >= each of them.
C2_LocalHeapOrder ==
    \A p \in 0..final_partition(count) :
        \A i, j \in 0..(count_in_partition(count, p) - 1) :
            (/\ Descendant(i, j)
             /\ Definite(partition_start(p) + i)
             /\ Definite(partition_start(p) + j))
                => HeapOrdered(p, i, j)

\* every live cell holds a determinate value
LiveDefinite == \A i \in Live : Definite(i)

\* value v occurs among the live cells
Occurs(v) == \E i \in Live : a[i] = v

\* C3: with count >= 1, min() is the minimum of the live elements.
C3_MinIsMinimum ==
    (count >= 1 /\ LiveDefinite) => \A i \in Live : min(Self) <= a[i]

\* C4: with count >= 1, max() is the maximum of the live elements.
C4_MaxIsMaximum ==
    (count >= 1 /\ LiveDefinite) =>
        \A g \in Garbage :
            /\ max(Self, g).err = "none"
            /\ \A i \in Live : max(Self, g).val >= a[i]
            /\ Occurs(max(Self, g).val)

\* Runs of insert calls alone on an empty, resizable container.
InsertOnlySpec == InitEmpty /\ [][Insert]_vars

\* C5: insert/contains round trip: in a run of insert calls alone, contains(v)
\* is true for every value v the run has inserted (those are the values
\* that occur among the live cells, see C6).
C5_InsertedIsContained ==
    \A v \in Vals : Occurs(v) => \A g \in Garbage : contains(Self, v, g)

\* the multiset of the live elements (the first count cells) of a container
CellVals == {Uninit} \cup Vals \cup {FarGarbage} \cup DeepVals
LiveBag(h) ==
    [x \in CellVals |-> Cardinality({i \in 0..(h.count - 1) : h.a[i] = x})]

\* C6: a successful insert(v) adds exactly one occurrence of v to the
\* multiset of live elements and loses or duplicates nothing else; size()
\* grows by 1.
C6_InsertAbsorbsOne ==
    \A v \in Vals, g \in Garbage :
        \E r \in {insert(Self, v, g)} :
            r.ret = "ok" =>
                /\ LiveBag(r.h) = [LiveBag(Self) EXCEPT ![v] = @ + 1]
                /\ size(r.h) = size(Self) + 1

\* insert(v) of a new smallest value into a container that has grown past
\* four cells and shrunk back to two full partitions: v enters partition 0
\* and the insert ripples through both partitions into a third
C6_Rippled ==
    \E v \in Vals, g \in Garbage :
        \E r \in {insert(Self, v, g)} :
            /\ count = 4 /\ storage > 4 /\ \A i \in Live : v < a[i]
            /\ r.ret = "ok" /\ r.h.a[0] = v /\ r.h.count = 5

\* C7: remove(v) of a value that occurs among the live elements returns true
\* and takes exactly one occurrence of v out of the multiset of live elements.
C7_RemovePresent ==
    \A v \in Vals, g \in Garbage :
        Occurs(v) =>
            \E r \in {remove(Self, v, g)} :
                /\ r.ret = "true"
                /\ LiveBag(r.h) = [LiveBag(Self) EXCEPT ![v] = @ - 1]
                /\ size(r.h) = size(Self) - 1

\* every cell of the buffer has been written since its allocation, so no
\* indeterminate value decides what a search reads
BufferDefinite == \A i \in 0..(storage - 1) : Definite(i)

\* C8: remove(v) of a value that does not occur among the live elements
\* returns false and leaves count, storage and the buffer as they were
\* (stated on buffers whose cells have all been written).
C8_RemoveAbsent ==
    BufferDefinite =>
        \A v \in Vals : ~Occurs(v) =>
            \A g \in Garbage : remove(Self, v, g) = [ret |-> "false", h |-> Self]

\* C9: remove undoes insert: insert(v) followed by remove(v) leaves the
\* multiset of live elements, and size(), as they were before the insert.
C9_RemoveUndoesInsert ==
    \A v \in Vals, g1 \in Garbage, g2 \in Garbage :
        \E r1 \in {insert(Self, v, g1)} :
            r1.ret = "ok" =>
                \E r2 \in {remove(r1.h, v, g2)} :
                    /\ LiveBag(r2.h) = LiveBag(Self)
                    /\ size(r2.h) = size(Self)

\* C10: find(v) is sound: a reported hit lies below count and holds v, so
\* contains(v) is false for a value that is not among the live elements
\* (stated on buffers whose cells have all been written).
C10_FindSound ==
    BufferDefinite =>
        \A v \in Vals, g \in Garbage :
            /\ find(Self, v, g)[1] =>
                  (find(Self, v, g)[2] < count /\ a[find(Self, v, g)[2]] = v)
            /\ ~Occurs(v) => ~contains(Self, v, g)

\* the container as the constructor left it: the drain loop has not started
JustBuilt == pos = 0

\* C11: a container built from a range R (allow_resize true or false) contains
\* every value of R.
C11_BuiltContainsRange ==
    JustBuilt => \A k \in 1..Len(src) : \A g \in Garbage : contains(Self, src[k], g)

\* built from a range of five values that fills two partitions and starts a third
C11_BuiltThreePartitions ==
    /\ JustBuilt /\ Len(src) = 5 /\ count = 5 /\ fixed /\ storage = 5
    /\ \E k \in 1..5 : src[k] # src[1]
    /\ \A k \in 1..5 : \A g \in Garbage : contains(Self, src[k], g)

\* the multiset of the values of the source array
SrcBag == [x \in CellVals |-> Cardinality({k \in 1..Len(src) : src[k] = x})]

\* every partition before the final one is full, and its cells are written
PriorPartitionsFull ==
    \A p \in 0..(final_partition(count) - 1) :
        /\ count_in_partition(count, p) = partition_size(p)
        /\ partition_end(p) < count
        /\ \A i \in partition_start(p)..partition_end(p) : Definite(i)

\* local heap order, stated link by link: every live cell of a partition is in
\* order with its parent and its grandparent (which, step by step, puts it in
\* order with all its ancestors)
InOrderBelow(p, i, j) == i >= 0 /\ i < j => HeapOrdered(p, i, j)

HeapOrderByLinks ==
    \A p \in 0..final_partition(count) :
        \A j \in 1..(count_in_partition(count, p) - 1) :
            /\ InOrderBelow(p, parent(j), j)
            /\ j >= 3 => InOrderBelow(p, parent(parent(j)), j)

\* global order, stated between neighbours: no live cell of a partition is
\* greater than a live cell of the partition after it
NeighboursOrdered ==
    \A p \in 0..(final_partition(count) - 1) :
        \A i \in partition_start(p)..partition_end(p) :
            \A j \in partition_start(p + 1)..partition_end(p + 1) :
                j < count => a[i] <= a[j]

\* C12: bulk build: the constructor from a range R leaves size() = |R|, the
\* first size() cells a permutation of R, every partition in min-max heap
\* order, the partitions in global order and all partitions before the
\* final one full.
C12_BulkBuild ==
    JustBuilt =>
        /\ size(Self) = Len(src)
        /\ LiveBag(Self) = SrcBag
        /\ LiveDefinite
        /\ HeapOrderByLinks
        /\ NeighboursOrdered
        /\ PriorPartitionsFull

\* built from 82 values: partition 8 (cells 64..80) holds a heap of five
\* levels whose first max level cell holds a larger value than the cell
\* after it, which the sorted order would not allow
C12_BuiltDeepHeap ==
    /\ JustBuilt /\ count = DeepLen /\ final_partition(count) = 9
    /\ a[partition_start(8) + 1] > a[partition_start(8) + 3]
    /\ LiveBag(Self) = SrcBag /\ HeapOrderByLinks /\ NeighboursOrdered

\* C20: drain by value: removing the values of the source array from the
\* container built from it, one at a time in array order, returns true at
\* every step, and the loop ends with size() = 0.
C20_DrainByValue ==
    /\ pos < Len(src) => \A g \in Garbage : remove(Self, src[pos + 1], g).ret = "true"
    /\ pos = Len(src) => size(Self) = 0

\* n is 0 or a perfect square
IsSquare(n) == \E k \in 0..n : k * k = n

C14_Growth ==
    /\ IsSquare(storage) /\ count <= storage
    /\ storage = IF count = 0 THEN 0
                 ELSE IF count <= 4 THEN 4
                 ELSE IF count <= 9 THEN 9 ELSE 25

\* seventeen inserts done, the buffer has grown to 25 cells
C14_SeventeenInserted == count = 17 /\ storage = 25 /\ LiveDefinite

\* C15: on a fixed container with reservation N an insert succeeds while
\* count < storage (so the first N inserts do), and an insert attempted
\* while count = storage fails with std::length_error and leaves count,
\* storage and the buffer as they were.
C15_FixedCapacity ==
    fixed =>
        \A v \in Vals, g \in Garbage :
            \E r \in {insert(Self, v, g)} :
                IF count = storage
                THEN r.ret = "length_error" /\ r.h = Self
                ELSE /\ r.ret = "ok" /\ size(r.h) = count + 1
                     /\ r.h.storage = storage /\ r.h.fixed

\* a fixed container of three cells, filled by three inserts, refuses a fourth
C15_FixedFull ==
    /\ fixed /\ storage = 3 /\ count = 3 /\ LiveDefinite
    /\ \A v \in Vals, g \in Garbage : insert(Self, v, g).ret = "length_error"

\* indices a caller may pass: inside and just past the buffer, and the
\* largest size_t
Indices == 0..(storage + 1) \cup {SIZE_MAX}

\* C16: subscript(i) returns the cell i, a written value, for every
\* i < count and fails with std::out_of_range for every i >= count, so for
\* every i on an empty container (operator[] is const: the container stays
\* as it is).
C16_Subscript ==
    \A i \in Indices :
        IF i < count
        THEN subscript(Self, i) = [err |-> "none", val |-> a[i]] /\ Definite(i)
        ELSE subscript(Self, i).err = "out_of_range"

\* three live elements in a buffer of four cells whose last cell still holds
\* a removed value: index 2 is read, index 3 is refused
C16_StaleCellRefused ==
    /\ count = 3 /\ storage = 4 /\ Definite(3)
    /\ subscript(Self, 2) = [err |-> "none", val |-> a[2]]
    /\ subscript(Self, 3).err = "out_of_range"

\* container d has the storage, count and fixed flag of container h and the
\* same first count elements
SameContents(d, h) ==
    /\ d.storage = h.storage /\ d.count = h.count /\ d.fixed = h.fixed
    /\ \A i \in 0..(h.count - 1) : d.a[i] = h.a[i]

\* the objects an assignment may overwrite: a default constructed one, or h2
Targets == {HeapArray0} \cup {other[k] : k \in DOMAIN other}

\* C17: a copy (construction or assignment) has the storage, count, fixed
\* flag and first count elements of its source and leaves the source
\* unchanged; afterwards no insert or remove on one of the two containers
\* changes the other.
C17_CopyIndependent ==
    [][/\ \A lhs \in Targets :
              \E r \in {copy_assign(lhs, Self)} :
                  SameContents(r.lhs, Self) /\ r.rhs = Self
       /\ (other = <<>> /\ other' # <<>>) => SameContents(other'[1], Self)
       /\ Self' = Self \/ other' = other]_vars

\* h2 was copied from h and an insert on h2 has since made it the larger
\* of the two
C17_CopyDiverged ==
    /\ other # <<>> /\ count = 1 /\ other[1].count = 2
    /\ other[1].storage = storage /\ other[1].a[0] <= a[0]

\* C18: a move (construction or assignment) gives the destination the
\* storage, count, fixed flag and buffer of the source and leaves the source
\* with storage = count = 0, fixed = false and no buffer: a default
\* constructed container, which an insert grows like any empty one.
C18_MoveEmptiesSource ==
    [][/\ \A lhs \in Targets :
              \E r \in {move_assign(lhs, Self)} :
                  /\ r.lhs = Self /\ SameContents(r.lhs, Self)
                  /\ r.rhs = HeapArray0
       /\ (other = <<>> /\ other' # <<>>) =>
              /\ SameContents(other'[1], Self) /\ Self' = HeapArray0
              /\ \A v \in Vals, g \in Garbage :
                    \E q \in {insert(Self', v, g)} :
                        /\ q.ret = "ok" /\ q.h.count = 1 /\ q.h.a[0] = v
                        /\ q.h.storage = MIN_HEAPARRAY_ALLOCATION]_vars

\* h was moved into h2 with its two elements, and an insert has since grown
\* the emptied h to its first four cells
C18_MovedThenReused ==
    /\ other # <<>> /\ other[1].count = 2 /\ count = 1
    /\ storage = MIN_HEAPARRAY_ALLOCATION /\ ~fixed /\ other[1].fixed

\* what an uninitialised cell may hold in a run of scenario S1
SceneGarbage == 0..9

\* C19: scenario S1: after the inserts 3, 1, 4, 1, 5, 9, 2, 6, 5, 3, 5 into an
\* empty container size() = 11, min() = 1, max() = 9, contains(4) is true
\* and contains(7) is false.
C19_ScenarioS1 ==
    (src = S1 /\ pos = Len(S1)) =>
        /\ size(Self) = 11
        /\ min(Self) = 1
        /\ \A g \in SceneGarbage :
              /\ max(Self, g) = [err |-> "none", val |-> 9]
              /\ contains(Self, 4, g)
              /\ ~contains(Self, 7, g)

\* what a heap primitive called with count = 0 on the view M leaves behind
Refused(M) == [err |-> "runtime_error", M |-> M, count |-> 0]

\* C21: empty-heap errors: max() on an empty container, and each of the heap
\* primitives min, max, remove_min, remove_max, remove_at_index and
\* replace_at_index called with count = 0 (at any base address, for any index
\* and value), throws std::runtime_error and leaves the buffer and the count
\* as they were.
C21_EmptyErrors ==
    \A g \in Garbage :
        \E M \in {View(Self, g)} :
            /\ count = 0 => max(Self, g).err = "runtime_error"
            /\ \A s \in 0..storage :
                  /\ mm_heap_min(M, s, 0).err = "runtime_error"
                  /\ mm_heap_max(M, s, 0).err = "runtime_error"
                  /\ mm_heap_remove_min(M, s, 0) = Refused(M)
                  /\ mm_heap_remove_max(M, s, 0) = Refused(M)
                  /\ \A i \in Indices :
                        /\ mm_heap_remove_at_index(i, M, s, 0) = Refused(M)
                        /\ \A v \in Vals :
                              mm_heap_replace_at_index(v, i, M, s, 0)
                                  = [err |-> "runtime_error", M |-> M]

\* a container emptied by remove calls, its four cells still holding the
\* removed values: max() throws
C21_EmptiedRefuses ==
    /\ count = 0 /\ storage = 4 /\ \A i \in 0..3 : Definite(i)
    /\ \A g \in Garbage : max(Self, g).err = "runtime_error"

\* the largest of value v and the n cells of M from address s on
MaxWith(M, s, n, v) ==
    CHOOSE x \in {v} \cup {M[s + i] : i \in 0..(n - 1)} :
        \A y \in {v} \cup {M[s + i] : i \in 0..(n - 1)} : y <= x

\* the live cells of partition p in a container of cnt elements
Residents(cnt, p) == {i \in partition_start(p)..partition_end(p) : i < cnt}

\* the steps of the insert loop from partition q on, value coming in: at each
\* overflow the value carried forward is the largest of the partition and
\* the incoming value, no cell left in q is greater, no resident of q + 1 is
\* smaller, and the same holds for the steps that follow
RECURSIVE RippleOrdered(_, _, _, _)
RippleOrdered(M, cnt, value, q) ==
    \E r \in {mm_heap_ripple_add(value, M, partition_start(q),
                                  count_in_partition(cnt, q), partition_size(q))} :
        (r.err = "none" /\ r.rippled) =>
            /\ r.max_value = MaxWith(M, partition_start(q), partition_size(q), value)
            /\ \A i \in Residents(cnt, q) : r.M[i] <= r.max_value
            /\ \A j \in Residents(cnt, q + 1) : r.max_value <= M[j]
            /\ RippleOrdered(r.M, cnt, r.max_value, q + 1)

\* C22: forward ripple ordering: whenever a partition q overflows during
\* insert(v), the value carried forward to partition q + 1 is the maximum of
\* the contents of q before the step and the incoming value, so it is >=
\* every element left in q and <= every resident of q + 1; for every v, also
\* one larger than the maximum of a full final partition.
C22_ForwardRipple ==
    \A v \in Vals, g \in Garbage :
        ~(count = storage /\ fixed) =>
            \E h1 \in {IF count = storage THEN grow(Self).h ELSE Self} :
                \E M \in {View(h1, g)} :
                    RippleOrdered(M, count, v, find_partition(M, count, v, TRUE))

\* cells i and j of the heap at address s of M are in heap order, i being an
\* ancestor of j
InOrder(M, s, i, j) ==
    IF min_level(i) THEN M[s + i] <= M[s + j] ELSE M[s + i] >= M[s + j]

\* the n cells of M from address s on are a min-max heap: every cell is in
\* order with its parent and its grandparent, hence with all its ancestors
IsMinMaxHeap(M, s, n) ==
    \A j \in 1..(n - 1) :
        /\ InOrder(M, s, parent(j), j)
        /\ j >= 3 => InOrder(M, s, gparent(j), j)

\* the multiset of the n cells of M from address s on
HeapBag(M, s, n) ==
    [x \in CellVals |-> Cardinality({i \in 0..(n - 1) : M[s + i] = x})]

\* the largest of the n >= 1 cells of M from address s on
MaxOf(M, s, n) == MaxWith(M, s, n, M[s])

\* the state is a min-max heap of count elements in an array of storage cells
AHeap == count <= storage /\ LiveDefinite /\ IsMinMaxHeap(a, 0, count)

\* C23: ripple_add(v) on a min-max heap of n elements with capacity >= 1: if
\* n < capacity, v is added, n grows by 1 and overflowed is false; if
\* n = capacity, it returns (true, the maximum before the call), n stays and
\* the multiset loses one occurrence of that maximum and gains v; either way
\* the result is a min-max heap.
C23_RippleAdd ==
    (AHeap /\ storage >= 1) =>
        \A v \in Vals, g \in Garbage :
            \E M \in {View(Self, g)} :
                \E r \in {mm_heap_ripple_add(v, M, 0, count, storage)} :
                    /\ r.err = "none"
                    /\ IF count < storage
                       THEN /\ ~r.rippled /\ r.count = count + 1
                            /\ HeapBag(r.M, 0, count + 1)
                                   = [HeapBag(M, 0, count) EXCEPT ![v] = @ + 1]
                            /\ IsMinMaxHeap(r.M, 0, count + 1)
                       ELSE /\ r.rippled /\ r.max_value = MaxOf(M, 0, count)
                            /\ r.count = count
                            /\ HeapBag(r.M, 0, count)
                                   = [HeapBag(M, 0, count) EXCEPT
                                          ![r.max_value] = @ - 1, ![v] = @ + 1]
                            /\ IsMinMaxHeap(r.M, 0, count)

\* a full heap of seven elements takes a value smaller than its root: the
\* largest element comes back and the value is the new root
C23_FullTakesNewMin ==
    /\ AHeap /\ pos = 0 /\ count = 7 /\ storage = 7 /\ a[0] = 1 /\ a[1] # a[2]
    /\ \A g \in Garbage :
          \E r \in {mm_heap_ripple_add(0, View(Self, g), 0, count, storage)} :
              /\ r.rippled /\ r.max_value = 2 /\ r.M[0] = 0
              /\ IsMinMaxHeap(r.M, 0, 7)

\* C25: replace_at_index(v, i) on a min-max heap of n >= 1 elements, for
\* every i < n and every value v, returns the old cell i, leaves the multiset
\* less the old cell i plus v, and leaves a min-max heap.
C25_ReplaceAtIndex ==
    AHeap =>
        \A v \in Vals, i \in 0..(count - 1), g \in Garbage :
            \E M \in {View(Self, g)} :
                \E r \in {mm_heap_replace_at_index(v, i, M, 0, count)} :
                    /\ r.err = "none" /\ r.val = M[i]
                    /\ HeapBag(r.M, 0, count)
                           = [HeapBag(M, 0, count) EXCEPT ![M[i]] = @ - 1, ![v] = @ + 1]
                    /\ IsMinMaxHeap(r.M, 0, count)

\* C26: remove_at_index(i) on a min-max heap of n >= 1 elements, for every
\* i < n, returns the old cell i and decrements n; the first n - 1 cells are
\* then a min-max heap holding the old multiset less one occurrence of the
\* old cell i.
C26_RemoveAtIndex ==
    AHeap =>
        \A i \in 0..(count - 1), g \in Garbage :
            \E M \in {View(Self, g)} :
                \E r \in {mm_heap_remove_at_index(i, M, 0, count)} :
                    /\ r.err = "none" /\ r.val = M[i] /\ r.count = count - 1
                    /\ HeapBag(r.M, 0, count - 1)
                           = [HeapBag(M, 0, count) EXCEPT ![M[i]] = @ - 1]
                    /\ IsMinMaxHeap(r.M, 0, count - 1)

\* C27: remove_min on a min-max heap of n >= 1 elements returns the minimum
\* and decrements n; the first n - 1 cells are then a min-max heap holding
\* the old multiset less one occurrence of the minimum.
C27_RemoveMin ==
    (AHeap /\ count >= 1) =>
        \A g \in Garbage :
            \E M \in {View(Self, g)} :
                \E r \in {mm_heap_remove_min(M, 0, count)} :
                    /\ r.err = "none" /\ r.count = count - 1
                    /\ \A i \in 0..(count - 1) : r.val <= M[i]
                    /\ HeapBag(r.M, 0, count - 1)
                           = [HeapBag(M, 0, count) EXCEPT ![r.val] = @ - 1]
                    /\ IsMinMaxHeap(r.M, 0, count - 1)

\* remove_min has taken the root 0 off a heap of eight elements; the seven
\* left are a heap whose root is larger
C27_MinRemoved ==
    /\ pos = 1 /\ count = 7 /\ storage = 8 /\ a[7] = 0 /\ a[0] = 1
    /\ AHeap /\ a[1] = 2 /\ a[2] = 1

\* C28: remove_max on a min-max heap of n >= 1 elements returns the value
\* of the maximum and decrements n; the first n - 1 cells are then a min-max
\* heap holding the old multiset less one occurrence of the maximum.
C28_RemoveMax ==
    (AHeap /\ count >= 1) =>
        \A g \in Garbage :
            \E M \in {View(Self, g)} :
                \E r \in {mm_heap_remove_max(M, 0, count)} :
                    /\ r.err = "none" /\ r.count = count - 1
                    /\ r.val = MaxOf(M, 0, count)
                    /\ HeapBag(r.M, 0, count - 1)
                           = [HeapBag(M, 0, count) EXCEPT ![MaxOf(M, 0, count)] = @ - 1]
                    /\ IsMinMaxHeap(r.M, 0, count - 1)

\* C29: bounds of remove_min: a call on a heap of n >= 1 elements passes
\* sift-down a right bound below n (it does not wrap), writes no cell with
\* index >= n, and reads none: the value returned and the cells below n
\* after the call do not depend on what the cells from n on hold.
C29_RemoveMinBounds ==
    (AHeap /\ count >= 1) =>
        /\ USub(count - 1, 1) < count
        /\ \A g \in Garbage :
              \E M \in {View(Self, g)} :
                  \A k \in DOMAIN M :
                      k >= count => mm_heap_remove_min(M, 0, count).M[k] = M[k]
        /\ \A g1 \in Garbage, g2 \in Garbage :
              \E r1 \in {mm_heap_remove_min(View(Self, g1), 0, count)} :
                  \E r2 \in {mm_heap_remove_min(View(Self, g2), 0, count)} :
                      /\ r1.val = r2.val
                      /\ \A k \in 0..(count - 1) : r1.M[k] = r2.M[k]

\* container h with every cell from count on as new int[] left it
Fresh(h) ==
    [h EXCEPT !.a = [i \in 0..(h.storage - 1) |->
                        IF i < h.count THEN h.a[i] ELSE Uninit]]

\* C30: bounds of find: find(v) and contains(v) read only cells with index
\* < count, so what they return does not depend on what the cells from count
\* on hold (values left by earlier removes, cells never written, memory past
\* the end of the buffer).
C30_FindBounds ==
    \A v \in Vals, g1 \in Garbage, g2 \in Garbage :
        /\ find(Self, v, g1) = find(Fresh(Self), v, g2)
        /\ contains(Self, v, g1) = contains(Fresh(Self), v, g2)

\* container h satisfies the invariants: its live cells are written, every
\* partition is a min-max heap and no resident of a partition is greater
\* than a resident of the next one
WellFormed(h) ==
    /\ \A i \in 0..(h.count - 1) : h.a[i] # Uninit
    /\ \A q \in 0..final_partition(h.count) :
          IsMinMaxHeap(h.a, partition_start(q), count_in_partition(h.count, q))
    /\ \A q \in 0..(final_partition(h.count) - 1) :
          \A i \in Residents(h.count, q), j \in Residents(h.count, q + 1) :
              h.a[i] <= h.a[j]

\* the multiset of the first n cells of partition q of container h
PartBag(h, q, n) == HeapBag(h.a, partition_start(q), n)

\* what remove(v) with result r did to partition q of container h, the
\* victim being in partition p and fp being the final partition
RippledBack(h, r, v, p, fp, q) ==
    IF q < p
    THEN \A i \in Residents(h.count, q) : r.h.a[i] = h.a[i]
    ELSE IF q = fp
    THEN PartBag(r.h, q, count_in_partition(h.count, q) - 1)
             = [PartBag(h, q, count_in_partition(h.count, q))
                    EXCEPT ![h.a[partition_start(q)]] = @ - 1]
    ELSE PartBag(r.h, q, partition_size(q))
             = [PartBag(h, q, partition_size(q))
                    EXCEPT ![IF q = p THEN v ELSE h.a[partition_start(q)]] = @ - 1,
                           ![h.a[partition_start(q + 1)]] = @ + 1]

\* C24: backward ripple: when remove(v), called on a container that satisfies
\* the invariants, finds v in a partition p before the final one, it returns
\* true; the final partition loses its minimum, every partition q between p
\* and the final one loses its minimum and gains the minimum of q + 1, p loses
\* one v and gains the minimum of p + 1, the partitions before p stay as they
\* are, and the container satisfies the invariants afterwards.
C24_BackwardRipple ==
    WellFormed(Self) =>
        \A v \in DeepVals, g \in Garbage :
            \E t \in {find_tuple(View(Self, g), count, v)} :
                (t[1] /\ t[3] < final_partition(count)) =>
                    \E r \in {remove(Self, v, g)} :
                        /\ r.ret = "true" /\ r.h.count = count - 1
                        /\ \A q \in 0..final_partition(count) :
                              RippledBack(Self, r, v, t[3], final_partition(count), q)
                        /\ WellFormed(r.h)

\* the smallest and the largest of the live cells of partition q
LeastIn(M, cnt, q) ==
    CHOOSE x \in {M[i] : i \in Residents(cnt, q)} :
        \A i \in Residents(cnt, q) : x <= M[i]

GreatestIn(M, cnt, q) ==
    CHOOSE x \in {M[i] : i \in Residents(cnt, q)} :
        \A i \in Residents(cnt, q) : M[i] <= x

\* C31: in every state with count >= 1 that satisfies the invariants,
\* find_partition(v, for_insert = true) ends through a match condition and
\* returns a partition p in 0..final_partition() with v >= the maximum of
\* partition p - 1 when p > 0 and v <= the minimum of partition p + 1 when
\* p < final_partition().
C31_InsertSearch ==
    (count >= 1 /\ WellFormed(Self)) =>
        \A v \in DeepVals, g \in Garbage :
            \E M \in {View(Self, g)} :
                \E r \in {find_partition_res(M, count, v, TRUE)} :
                    /\ r.matched /\ r.p \in 0..final_partition(count)
                    /\ r.p > 0 => v >= GreatestIn(M, count, r.p - 1)
                    /\ r.p < final_partition(count) => v <= LeastIn(M, count, r.p + 1)

\* four 0s and a 2 in three partitions: the search for 1 looks at partition
\* 1, then settles on partition 2, whose range does not hold 1
C31_FitsBetween ==
    /\ count = 5 /\ WellFormed(Self) /\ a[4] = 2 /\ \A i \in 0..3 : a[i] = 0
    /\ \A g \in Garbage :
          find_partition_res(View(Self, g), count, 1, TRUE)
              = [p |-> 2, matched |-> TRUE, probes |-> <<1, 2>>]

\* partition q brackets v: its minimum is <= v and its maximum is >= v
Brackets(M, cnt, q, v) == LeastIn(M, cnt, q) <= v /\ v <= GreatestIn(M, cnt, q)

\* C32: pure search: in every state with count >= 1 that satisfies the
\* invariants, find_partition(v, for_insert = false) returns a partition
\* that brackets v whenever some partition does, and 0 when none does.
C32_PureSearch ==
    (count >= 1 /\ WellFormed(Self)) =>
        \A v \in DeepVals, g \in Garbage :
            \E M \in {View(Self, g)} :
                \E r \in {find_partition_res(M, count, v, FALSE)} :
                    IF \E q \in 0..final_partition(count) : Brackets(M, count, q, v)
                    THEN /\ r.matched /\ r.p \in 0..final_partition(count)
                         /\ Brackets(M, count, r.p, v)
                    ELSE ~r.matched /\ r.p = 0

\* 81 zeros and a 2 in ten partitions: the search for 2 goes through
\* partitions 4, 7 and 8 to the final partition 9, and the search for 1, which
\* no partition brackets, probes the same partitions and ends with the
\* default result
C32_SearchedDeep ==
    /\ count = DeepLen /\ WellFormed(Self) /\ a[80] = 0 /\ a[81] = 2
    /\ \A g \in Garbage :
          /\ find_partition_res(View(Self, g), count, 2, FALSE)
                 = [p |-> 9, matched |-> TRUE, probes |-> <<4, 7, 8, 9>>]
          /\ find_partition_res(View(Self, g), count, 1, FALSE)
                 = [p |-> 0, matched |-> FALSE, probes |-> <<4, 7, 8, 9>>]

\* C33: make_heap applied to any array of n >= 0 values rearranges it in
\* place into a valid min-max heap with the same multiset of values.
C33_MakeHeap ==
    pos = 1 =>
        /\ LiveDefinite /\ count = Len(src)
        /\ IsMinMaxHeap(a, 0, count)
        /\ HeapBag(a, 0, count)
               = [x \in CellVals |-> Cardinality({i \in 1..Len(src) : src[i] = x})]

\* a descending array of eight values was rearranged: its largest values have
\* left the front and its smallest is the root
C33_MadeFromDescending ==
    /\ pos = 1 /\ src = <<2, 2, 2, 1, 1, 1, 0, 0>>
    /\ a[0] = 0 /\ IsMinMaxHeap(a, 0, 8)
    /\ \E i \in 0..7 : a[i] # src[i + 1]

\* C34: every insert terminates: starting at p = find_partition(v, true) it
\* performs exactly one ripple_add per partition on the consecutive partitions
\* p, p+1, ..., q in increasing order, with q <= final_partition() + 1, and
\* the ripple_add overflows in every visited partition except the last one.
C34_InsertRipples ==
    ~(count = storage /\ fixed) =>
        \A v \in Vals, g \in Garbage :
            \E h1 \in {IF count = storage THEN grow(Self).h ELSE Self} :
            \E M \in {View(h1, g)} :
            \E p \in {find_partition(M, count, v, TRUE)} :
            \E r \in {insert_loop(M, count, v, p)} :
            \E n \in {Len(r.steps)} :
                /\ r.err = "none" /\ n >= 1
                /\ \A k \in 1..n : r.steps[k].partition = p + k - 1
                /\ p + n - 1 <= final_partition(count) + 1
                /\ \A k \in 1..(n - 1) :
                       /\ r.steps[k].rippled
                       /\ r.steps[k].p_count = partition_size(p + k - 1)
                /\ ~r.steps[n].rippled
                /\ r.steps[n].p_count < partition_size(p + n - 1)

\* after a remove left 81 elements in nine full partitions, the insert of 0
\* starts in partition 4, overflows in the partitions 4..8 and ends in the
\* empty partition 9
C34_RippledToNewPartition ==
    /\ count = 81 /\ ~fixed /\ storage > count
    /\ \A g \in Garbage :
          \E M \in {View(Self, g)} :
          \E r \in {insert_loop(M, count, 0, find_partition(M, count, 0, TRUE))} :
              /\ r.err = "none" /\ Len(r.steps) = 6
              /\ r.steps[1].partition = 4 /\ r.steps[6].partition = 9
              /\ r.steps[5].rippled /\ r.steps[5].p_count = 17
              /\ r.steps[6].p_count = 0 /\ ~r.steps[6].rippled

\* C35: the live elements occupy exactly the buffer slots [0, count): every
\* partition p < final_partition() holds 2p+1 live elements and the final
\* partition holds between 1 and 2p+1 when count >= 1; a successful insert
\* newly occupies only slot count (its value before the call) and never
\* writes a slot with index >= storage, also on a fixed container whose
\* storage is not a perfect square.
C35_PrefixOccupancy ==
    /\ count <= storage /\ LiveDefinite
    /\ \A p \in 0..final_partition(count) :
          \E c \in {count_in_partition(count, p)} :
              /\ Cardinality(Residents(count, p)) = c
              /\ p < final_partition(count) => c = 2 * p + 1
              /\ (p = final_partition(count) /\ count >= 1) => (1 <= c /\ c <= 2 * p + 1)
    /\ ~(count = storage /\ fixed) =>
          \A v \in Vals, g \in Garbage :
              \E h1 \in {IF count = storage THEN grow(Self).h ELSE Self} :
              \E M \in {View(h1, g)} :
              \E r \in {insert_loop(M, count, v, find_partition(M, count, v, TRUE))} :
                  /\ r.err = "none"
                  /\ \A i \in DOMAIN M : i > count => r.M[i] = M[i]
                  /\ \A i \in DOMAIN M : i >= h1.storage => r.M[i] = g
                  /\ HeapBag(r.M, 0, count + 1)
                         = [HeapBag(M, 0, count) EXCEPT ![v] = @ + 1]

\* a fixed container of three cells holds two elements after two inserts; the
\* third insert fills slot 2 and leaves the cells past the buffer alone
C35_FixedThirdInsert ==
    /\ fixed /\ storage = 3 /\ count = 2 /\ a[2] = Uninit
    /\ \A v \in Vals, g \in Garbage :
          \E r \in {insert(Self, v, g)} :
              /\ r.ret = "ok" /\ r.h.count = 3 /\ r.h.storage = 3
              /\ r.h.a[2] \in Vals
              /\ LiveBag(r.h) = [LiveBag(Self) EXCEPT ![v] = @ + 1]

\* C36: replace_at_index and remove_at_index reject every out-of-range
\* index: for every index i >= n (i = n included) they fail with a range
\* error (on an empty heap, with an error) and leave the heap and n unchanged.
C36_RejectOutOfRange ==
    AHeap =>
        \A v \in Vals, i \in count..(count + 2), g \in Garbage :
            \E M \in {View(Self, g)} :
                /\ \E r \in {mm_heap_replace_at_index(v, i, M, 0, count)} :
                       /\ IF count = 0 THEN r.err # "none" ELSE r.err = "range_error"
                       /\ r.M = M
                /\ \E r \in {mm_heap_remove_at_index(i, M, 0, count)} :
                       /\ IF count = 0 THEN r.err # "none" ELSE r.err = "range_error"
                       /\ r.M = M /\ r.count = count

\* the smallest perfect square >= n
SquareAbove(n) == CeilSqrt(n) * CeilSqrt(n)

\* C37: grow() on a resizable container sets storage to 4 when storage = 0
\* and otherwise to the smallest perfect square >= 2 * storage, and leaves
\* count and the values of the first count buffer slots, in the same order,
\* unchanged.
C37_Grow ==
    ~fixed =>
        \E r \in {grow(Self)} :
            /\ r.err = "none"
            /\ r.h.storage = IF storage = 0 THEN 4 ELSE SquareAbove(2 * storage)
            /\ r.h.count = count
            /\ \A i \in 0..(count - 1) : i < r.h.storage /\ r.h.a[i] = a[i]

\* C38: the partition binary search always terminates and only ever probes
\* partition indices in [0, final_partition()]: its unsigned right bound is
\* never used after being decremented from 0, for every value and every state
\* (also when the value is smaller than every element).  Each probe is of a
\* partition not probed before, so the probes number at most
\* final_partition() + 1.
C38_SearchBounded ==
    \A v \in DeepVals, for_insert \in BOOLEAN, g \in Garbage :
        \E r \in {find_partition_res(View(Self, g), count, v, for_insert)} :
            /\ r.p \in 0..final_partition(count)
            /\ \A k \in 1..Len(r.probes) : r.probes[k] \in 0..final_partition(count)
            /\ \A j, k \in 1..Len(r.probes) : r.probes[j] = r.probes[k] => j = k
            /\ count = 0 => r.probes = <<>>

\* five elements, none of them 0, in three partitions: the search for 0 looks
\* at partition 1, moves left to partition 0 and stops there without a match
C38_BelowEveryElement ==
    /\ count = 5 /\ LiveDefinite /\ \A i \in 0..4 : a[i] >= 1
    /\ \A g \in Garbage :
          \E r \in {find_partition_res(View(Self, g), count, 0, FALSE)} :
              r = [p |-> 0, matched |-> FALSE, probes |-> <<1, 0>>]

====
